---- MODULE Spec2Model ----
(***************************************************************************)
(* Offline-first synchronisation layer of the farmer advisory application. *)
(*                                                                         *)
(*   Spec        the client: OfflineProvider (connectivity monitor, sync   *)
(*               queue manager) and the service worker's background sync,  *)
(*               against an endpoint whose answers are inputs.             *)
(*   SpecServer  the sync routes of the backend, one request at a time.    *)
(*   SpecRace    single-endpoint diagnosis requests whose database calls   *)
(*               interleave.                                               *)
(*                                                                         *)
(* Time is counted in days: Date.now() is the variable now, and the 7-day  *)
(* retention window 7 * 24 * 60 * 60 * 1000 ms is RetentionDays.           *)
(***************************************************************************)
EXTENDS Integers, Sequences, FiniteSets, TLC

(***************************************************************************)
(* Bounds of the model.                                                    *)
(***************************************************************************)
MaxRecords == 2
MaxDrainCalls == 2
MaxNow == 8
MaxPruneRuns == 1
MaxRequests == 3
MaxBatch == 3
MaxServerNow == 2
MaxHandlers == 2
MaxReports == 10
MaxVariedReports == 3
MaxStatusUpdates == 1
MaxReportHandlers == 3
MaxReopenReports == 4
MaxReopenUpdates == 3

(***************************************************************************)
(* Program constants.                                                      *)
(***************************************************************************)
RetentionDays == 7

\* The type strings the application's call sites pass to saveOfflineData.
SaveTypes == {"diagnosis", "market_data"}

\* What a fetch to /api/sync can end with: a 2xx response, any other
\* response, or a rejected promise (network error).
Responses == {"2xx", "non2xx", "neterr"}

VARIABLES
  \* ---- OfflineProvider state (React state and browser state) ----
  db,            \* the IndexedDB handle has been set (db !== null)
  navOnLine,     \* navigator.onLine
  isOnline,      \* useState(navigator.onLine)
  forceOffline,  \* useState(false)
  pendingSync,   \* useState<OfflineData[]>([]): the in-memory pending list
  now,           \* Date.now(), in days
  nextId,        \* stands for the fresh `${type}_${Date.now()}_${random}` id
  \* ---- IndexedDB object stores (keyPath 'id') ----
  offlineData,   \* store 'offlineData': a set of records
  pendingStore,  \* store 'pendingSync': a set of records
  \* ---- asynchronous work in flight ----
  saves,         \* immediate deliveries started by saveOfflineData
  drains,        \* running syncPendingData calls
  bgRegistered,  \* a 'background-sync' registration is outstanding
  bgQueue,       \* the items a running doBackgroundSync has still to process
  \* ---- history (not program state) ----
  drainCalls,      \* number of syncPendingData invocations so far
  drainStarted,    \* some syncPendingData call got past its guard
  failedIds,       \* ids of records with a failed delivery attempt
  pruneRuns,       \* number of clearSyncedData calls so far
  enqueuedOffline, \* ids of records saveOfflineData queued while offline
  lastDelivery,    \* the delivery attempt that ended last, with its answer
  \* ---- backend: MongoDB collections and the server clock ----
  users,         \* collection of User documents, by _id
  diagnoses,     \* collection of CropDiagnosis documents
  nextOid,       \* stands for the next fresh ObjectId
  serverNow,     \* the server's new Date(), in days
  \* ---- backend: the HTTP exchange handled last ----
  lastReq,
  lastResp,
  \* ---- backend: single-endpoint handlers whose awaits are pending ----
  handlers,
  \* ---- history (not program state) ----
  reqCount,      \* number of requests handled so far
  batchAt,       \* per user, the time of the last batch that passed validation
  answered,      \* the answers of the handlers that have completed
  \* ---- backend: the DiseaseOutbreak collection and its report route ----
  outbreaks,     \* collection of DiseaseOutbreak documents
  nextOutbreakId,\* stands for the next fresh ObjectId of an outbreak
  lastReport,    \* the outbreak request handled last, with its answer
  obHandlers,    \* report handlers whose awaits are pending
  \* ---- history (not program state) ----
  reportCount,   \* number of outbreak reports handled so far
  statusCount,   \* number of status updates handled so far
  alertCalls     \* number of sendOutbreakAlerts invocations so far

clientVars == <<db, navOnLine, isOnline, forceOffline, pendingSync, now, nextId,
          offlineData, pendingStore, saves, drains, bgRegistered, bgQueue,
          drainCalls, drainStarted, failedIds, pruneRuns, enqueuedOffline>>

dbVars == <<users, diagnoses, nextOid>>
serverVars == <<dbVars, serverNow, lastReq, lastResp, handlers, reqCount,
                batchAt, answered>>

outbreakVars == <<outbreaks, nextOutbreakId, lastReport, obHandlers,
                  reportCount, statusCount, alertCalls>>

vars == <<clientVars, serverVars, outbreakVars, lastDelivery>>

connVars == <<navOnLine, isOnline, forceOffline>>
storeVars == <<offlineData, pendingStore>>
bgVars == <<bgRegistered, bgQueue>>
histVars == <<drainCalls, drainStarted, failedIds, pruneRuns, enqueuedOffline>>

(***************************************************************************)
(* Helpers on sequences and sets.                                          *)
(***************************************************************************)
Range(s) == {s[i] : i \in DOMAIN s}

Ids(S) == {r.id : r \in S}

RECURSIVE SelectIdx(_, _, _)
\* The subsequence of s at the indices i with keep[i], order kept
\* (Array.prototype.filter).
SelectIdx(s, keep, i) ==
  IF i > Len(s) THEN <<>>
  ELSE (IF keep[i] THEN <<s[i]>> ELSE <<>>) \o SelectIdx(s, keep, i + 1)

\* The type strings of the application in ascending string order.
TypeOrder ==
  <<"captured_image", "diagnosis", "irrigation_data", "market_data",
    "uploaded_image">>

TypeRank(type) == CHOOSE i \in DOMAIN TypeOrder : TypeOrder[i] = type

\* The order of two keys. A key is the string
\* `${type}_${Date.now()}_${random}`: keys of different types compare by
\* type, keys of one type by the time in them; within one day the later
\* save has the later time.
KeyBefore(r, q) ==
  IF r.type # q.type THEN TypeRank(r.type) < TypeRank(q.type)
  ELSE IF r.timestamp # q.timestamp THEN r.timestamp < q.timestamp
  ELSE r.id <= q.id

RECURSIVE SetToSeq(_)
\* The records of a store in key order, as IDBObjectStore.getAll returns
\* them.
SetToSeq(S) ==
  IF S = {} THEN <<>>
  ELSE LET m == CHOOSE r \in S : \A q \in S : KeyBefore(r, q)
       IN <<m>> \o SetToSeq(S \ {m})

(***************************************************************************)
(* IndexedDB object store operations on a store with keyPath 'id'.         *)
(***************************************************************************)
\* store.add(value): fails (ConstraintError) when the key is present.
CanAdd(store, rec) == rec.id \notin Ids(store)

StoreAdd(store, rec) == store \cup {rec}

\* Mutant of StorePut: a put that inserts without replacing the old record.
StorePut_NoReplace(store, rec) == store \cup {rec}

\* store.put(value): inserts, or replaces the record with the same key.
StorePut(store, rec) == {r \in store : r.id # rec.id} \cup {rec}

\* store.delete(key)
StoreDelete(store, id) == {r \in store : r.id # id}

\* A value is a valid IndexedDB key when it is a number, a date, a
\* string, a binary or an array of these; a boolean is not. The model's
\* keys are record ids (numbers) and the booleans of the 'synced' index.
ValidKey(v) == v \notin BOOLEAN

(***************************************************************************)
(* Initial state: the provider has rendered once; initDB has not finished. *)
(***************************************************************************)
ClientInit ==
  /\ db = FALSE
  /\ navOnLine \in BOOLEAN
  /\ isOnline = navOnLine
  /\ forceOffline = FALSE
  /\ pendingSync = <<>>
  /\ now = 0
  /\ nextId = 1
  /\ offlineData = {}
  /\ pendingStore = {}
  /\ saves = {}
  /\ drains = {}
  /\ bgRegistered = FALSE
  /\ bgQueue = <<>>
  /\ drainCalls = 0
  /\ drainStarted = FALSE
  /\ failedIds = {}
  /\ pruneRuns = 0
  /\ enqueuedOffline = {}

(***************************************************************************)
(* Connectivity monitor.                                                   *)
(***************************************************************************)
\* initDB: open the database, then load the pending list from the
\* 'pendingSync' store.
InitDB ==
  /\ ~db
  /\ db' = TRUE
  /\ pendingSync' = SetToSeq(pendingStore)
  /\ UNCHANGED <<connVars, now, nextId, storeVars, saves, drains, bgVars,
                 histVars>>

\* Mutant of handleOnline: the forceOffline test is missing.
handleOnline_Unguarded == isOnline' = TRUE

\* The listener registered for 'online'.
handleOnline ==
  IF ~forceOffline THEN isOnline' = TRUE ELSE isOnline' = isOnline

\* The browser reports the link up: navigator.onLine becomes true and the
\* 'online' event is dispatched to the listener.
BrowserOnline ==
  /\ ~navOnLine
  /\ navOnLine' = TRUE
  /\ handleOnline
  /\ UNCHANGED <<db, forceOffline, pendingSync, now, nextId, storeVars,
                 saves, drains, bgVars, histVars>>

\* The listener registered for 'offline'.
handleOffline == isOnline' = FALSE

BrowserOffline ==
  /\ navOnLine
  /\ navOnLine' = FALSE
  /\ handleOffline
  /\ UNCHANGED <<db, forceOffline, pendingSync, now, nextId, storeVars,
                 saves, drains, bgVars, histVars>>

\* toggleOnlineMode, and the effect that re-runs because forceOffline
\* changed: it registers the listeners again and runs initDB again, which
\* reloads the in-memory pending list from the store.
toggleOnlineMode ==
  /\ forceOffline' = ~forceOffline
  /\ IF forceOffline THEN isOnline' = navOnLine ELSE isOnline' = FALSE
  /\ db' = TRUE
  /\ pendingSync' = SetToSeq(pendingStore)
  /\ UNCHANGED <<navOnLine, now, nextId, storeVars, saves, drains, bgVars,
                 histVars>>

\* Time passes: a whole retention window, or a day more than that.
Tick ==
  /\ \E d \in {RetentionDays, RetentionDays + 1} :
       /\ now + d <= MaxNow
       /\ now' = now + d
  /\ UNCHANGED <<db, connVars, pendingSync, nextId, storeVars, saves,
                 drains, bgVars, histVars>>

(***************************************************************************)
(* Sync queue manager.                                                     *)
(***************************************************************************)
\* The OfflineData object saveOfflineData builds.
NewRecord(type) ==
  [id |-> nextId, type |-> type, timestamp |-> now, synced |-> FALSE]

\* saveOfflineData(type, data)
saveOfflineData(type) ==
  /\ nextId <= MaxRecords
  /\ IF ~db
     THEN UNCHANGED <<nextId, storeVars, pendingSync, saves, enqueuedOffline>>
     ELSE LET rec == NewRecord(type) IN
          /\ CanAdd(offlineData, rec)
          /\ nextId' = nextId + 1
          /\ offlineData' = StoreAdd(offlineData, rec)
          /\ IF ~isOnline
             THEN /\ CanAdd(pendingStore, rec)
                  /\ pendingStore' = StoreAdd(pendingStore, rec)
                  /\ pendingSync' = Append(pendingSync, rec)
                  /\ enqueuedOffline' = enqueuedOffline \cup {rec.id}
                  /\ UNCHANGED saves
             ELSE /\ saves' = saves \cup {rec}
                  /\ UNCHANGED <<pendingStore, pendingSync, enqueuedOffline>>
  /\ UNCHANGED <<db, connVars, now, drains, bgVars, drainCalls, drainStarted,
                 failedIds, pruneRuns>>

\* Whether syncDataItem returns true for a fetch that ended with resp.
DeliveryOk(resp) == resp = "2xx"

\* Mutant of syncDataItem: a failed attempt writes the caller's copy of the
\* item (synced = false) back to the store.
syncDataItem_WriteBackOnFail(item, resp) ==
  IF DeliveryOk(resp)
  THEN /\ offlineData' = StorePut(offlineData, [item EXCEPT !.synced = TRUE])
       /\ pendingStore' = StoreDelete(pendingStore, item.id)
       /\ UNCHANGED failedIds
  ELSE /\ offlineData' = StorePut(offlineData, item)
       /\ UNCHANGED pendingStore
       /\ failedIds' = failedIds \cup {item.id}

\* syncDataItem(item) from the moment its fetch has ended with resp: on a
\* 2xx the record is put back with synced = true and its entry is deleted
\* from the 'pendingSync' store; otherwise nothing is written.
syncDataItem(item, resp) ==
  IF DeliveryOk(resp)
  THEN /\ offlineData' = StorePut(offlineData, [item EXCEPT !.synced = TRUE])
       /\ pendingStore' = StoreDelete(pendingStore, item.id)
       /\ UNCHANGED failedIds
  ELSE /\ UNCHANGED storeVars
       /\ failedIds' = failedIds \cup {item.id}

\* The immediate delivery of saveOfflineData's online branch completes
\* with resp.
SaveDelivery(item, resp) ==
  /\ syncDataItem(item, resp)
  /\ saves' = saves \ {item}
  /\ UNCHANGED <<db, connVars, pendingSync, now, nextId, drains, bgVars,
                 drainCalls, drainStarted, pruneRuns, enqueuedOffline>>

\* The saveOfflineData calls that have not returned: a call that took the
\* online branch is suspended at `await syncDataItem(offlineData)` until
\* its delivery has ended; the offline branch returns within the step.
AwaitingDelivery == Ids(saves)

SaveDeliveryDone ==
  \E item \in saves, resp \in Responses : SaveDelivery(item, resp)

\* syncPendingData up to Promise.all: the guard, then one syncDataItem
\* call (one fetch) per item of the in-memory pending list.
syncPendingData ==
  /\ drainCalls < MaxDrainCalls
  /\ drainCalls' = drainCalls + 1
  /\ IF ~isOnline \/ ~db \/ Len(pendingSync) = 0
     THEN UNCHANGED <<drains, drainStarted>>
     ELSE /\ drains' = drains \cup
               {[n |-> drainCalls + 1,
                 items |-> pendingSync,
                 res |-> [i \in 1..Len(pendingSync) |-> "wait"],
                 first |-> ~drainStarted,
                 before |-> enqueuedOffline]}
          /\ drainStarted' = TRUE
  /\ UNCHANGED <<db, connVars, pendingSync, now, nextId, storeVars, saves,
                 bgVars, failedIds, pruneRuns, enqueuedOffline>>

\* The i-th of a drain's syncDataItem calls completes with resp.
DrainItem(d, i, resp) ==
  /\ d.res[i] = "wait"
  /\ syncDataItem(d.items[i], resp)
  /\ drains' = (drains \ {d}) \cup
       {[d EXCEPT !.res[i] = IF DeliveryOk(resp) THEN "ok" ELSE "fail"]}
  /\ UNCHANGED <<db, connVars, pendingSync, now, nextId, saves, bgVars,
                 drainCalls, drainStarted, pruneRuns, enqueuedOffline>>

DrainItemDone ==
  \E d \in drains, resp \in Responses :
    \E i \in DOMAIN d.items : DrainItem(d, i, resp)

\* The items a drain leaves in the in-memory list: those whose delivery
\* did not succeed.
StillPending(d) ==
  SelectIdx(d.items, [i \in DOMAIN d.items |-> d.res[i] # "ok"], 1)

\* syncPendingData after Promise.all: the in-memory list is replaced and,
\* where the browser supports it, a background sync is registered.
DrainFinish ==
  \E d \in drains, supported \in BOOLEAN :
    /\ \A i \in DOMAIN d.items : d.res[i] # "wait"
    /\ pendingSync' = StillPending(d)
    /\ drains' = drains \ {d}
    /\ bgRegistered' = (bgRegistered \/ supported)
    /\ UNCHANGED <<db, connVars, now, nextId, storeVars, saves, bgQueue,
                   histVars>>

\* The records clearSyncedData deletes when the query on the 'synced'
\* index yields the synced records.
OldSynced ==
  {r \in offlineData : r.synced /\ r.timestamp < now - RetentionDays}

\* clearSyncedData: IDBKeyRange.only(true) is asked for a key range on a
\* boolean; when that is no valid key it throws DataError before any
\* record is read, and the catch block logs it.
clearSyncedData ==
  /\ pruneRuns < MaxPruneRuns
  /\ pruneRuns' = pruneRuns + 1
  /\ IF db /\ ValidKey(TRUE)
     THEN offlineData' = offlineData \ OldSynced
     ELSE UNCHANGED offlineData
  /\ UNCHANGED <<db, connVars, pendingSync, now, nextId, pendingStore, saves,
                 drains, bgVars, drainCalls, drainStarted, failedIds,
                 enqueuedOffline>>

(***************************************************************************)
(* Service worker: background sync.                                        *)
(***************************************************************************)
\* The browser dispatches 'sync' with tag 'background-sync' once it has a
\* connection; doBackgroundSync reads the 'pendingSync' store.
BackgroundSyncStart ==
  /\ bgRegistered
  /\ navOnLine
  /\ bgQueue = <<>>
  /\ bgRegistered' = FALSE
  /\ bgQueue' = SetToSeq(pendingStore)
  /\ UNCHANGED <<db, connVars, pendingSync, now, nextId, storeVars, saves,
                 drains, histVars>>

\* One turn of doBackgroundSync's loop: the service worker's syncDataItem
\* throws unless the response is ok; removePendingData deletes the entry
\* from the 'pendingSync' store and nothing else.
BackgroundSyncItem ==
  \E resp \in Responses :
    /\ bgQueue # <<>>
    /\ IF DeliveryOk(resp)
       THEN pendingStore' = StoreDelete(pendingStore, Head(bgQueue).id)
       ELSE UNCHANGED pendingStore
    /\ bgQueue' = Tail(bgQueue)
    /\ UNCHANGED <<db, connVars, pendingSync, now, nextId, offlineData, saves,
                   drains, bgRegistered, histVars>>

(***************************************************************************)
(* Delivery attempts with the endpoint's whole answer: its status and the  *)
(* reconciler's outcome in its body. A rejected fetch has status 0.        *)
(***************************************************************************)
Answers ==
  { [status |-> 200, action |-> "created"],
    [status |-> 200, action |-> "skipped"],
    [status |-> 200, action |-> "no_changes"],
    [status |-> 400, action |-> ""],
    [status |-> 500, action |-> ""],
    [status |-> 0, action |-> ""] }

\* Mutant of ResponseOf: an answer counts as delivered only when its body
\* says the record was created.
ResponseOf_CreatedOnly(answer) ==
  IF answer.status = 0 THEN "neterr"
  ELSE IF answer.status \in 200..299 /\ answer.action = "created" THEN "2xx"
  ELSE "non2xx"

\* What syncDataItem sees of an answer: the fetch rejected, response.ok
\* (a status from 200 to 299), or not ok. The body is never read.
ResponseOf(answer) ==
  IF answer.status = 0 THEN "neterr"
  ELSE IF answer.status \in 200..299 THEN "2xx"
  ELSE "non2xx"

\* The n-th delivery attempt to end, its record and its answer.
Delivery(item, answer) ==
  [n |-> lastDelivery.n + 1, id |-> item.id, answer |-> answer]

NoDelivery == [n |-> 0, id |-> 0, answer |-> [status |-> 0, action |-> "none"]]

SaveDeliveryAnswered ==
  \E item \in saves, answer \in Answers :
    /\ SaveDelivery(item, ResponseOf(answer))
    /\ lastDelivery' = Delivery(item, answer)

DrainItemAnswered ==
  \E d \in drains, answer \in Answers :
    \E i \in DOMAIN d.items :
      /\ DrainItem(d, i, ResponseOf(answer))
      /\ lastDelivery' = Delivery(d.items[i], answer)

\* A step of the client: the backend's state is not touched.
Client(A) == A /\ UNCHANGED <<serverVars, outbreakVars, lastDelivery>>

\* A step of the client that ends a delivery attempt whose answer is kept.
Page(A) == A /\ UNCHANGED <<serverVars, outbreakVars>>

(***************************************************************************)
(* Backend: requests and their bodies.                                     *)
(***************************************************************************)
\* Users with a document in the collection, and a caller whose token names
\* no user.
Users == {"u1", "u2"}
Anonymous == "anonymous"

\* The values body('type').isIn([...]) accepts.
SyncTypes == {"diagnosis", "irrigation", "market", "user_data"}

\* Timestamps a request can carry: two spellings of one instant, a later
\* instant, and the number Date.now() yields.
TsA == "2024-01-01T06:00:00Z"
TsA2 == "2024-01-01T06:00:00.000Z"
TsB == "2024-01-02T06:00:00Z"
TsEpoch == "1704088800000"

\* body('timestamp').isISO8601()
IsISO8601(ts) == ts \in {TsA, TsA2, TsB}

\* new Date(timestamp), as a day number (day 0 is 2024-01-01).
ParseDate(ts) ==
  CASE ts \in {TsA, TsA2} -> 0
    [] ts = TsB -> 1
    [] OTHER -> 0 - 1

\* Request data. shape is "absent" (no data field), "null" or "object";
\* disease is data.result?.disease ("" when undefined); complete says that
\* data.result has the other fields the CropDiagnosis schema requires;
\* updates are the (field, value) pairs of a profile payload.
Absent == [shape |-> "absent", disease |-> "", complete |-> FALSE, updates |-> {}]
NullData == [shape |-> "null", disease |-> "", complete |-> FALSE, updates |-> {}]
Diagnosed(disease, complete) ==
  [shape |-> "object", disease |-> disease, complete |-> complete,
   updates |-> {}]
Profile(updates) ==
  [shape |-> "object", disease |-> "", complete |-> FALSE, updates |-> updates]

Item(type, data, ts) == [type |-> type, data |-> data, timestamp |-> ts]

\* Bodies a client sends to POST /api/sync.
SingleInputs ==
  { Item("diagnosis", Diagnosed("Blight", TRUE), TsA),
    Item("diagnosis", Diagnosed("Blight", TRUE), TsA2),
    Item("diagnosis", Diagnosed("Blight", TRUE), TsB),
    Item("diagnosis", Diagnosed("Rust", TRUE), TsA),
    Item("diagnosis", Diagnosed("Blight", FALSE), TsA),
    Item("diagnosis", Diagnosed("", FALSE), TsA),
    Item("diagnosis", Diagnosed("Blight", TRUE), TsEpoch),
    Item("diagnosis", Absent, TsA),
    Item("irrigation", Profile({}), TsA),
    Item("irrigation", NullData, TsA),
    Item("market", Profile({}), TsA),
    Item("user_data", Profile({<<"preferences", "hi">>}), TsA),
    Item("user_data", Profile({<<"preferences", "invalid">>}), TsA),
    Item("user_data", Profile({<<"email", "x@y">>}), TsA),
    Item("captured_image", Profile({}), TsA) }

\* Items of the bodies a client sends to POST /api/sync/batch.
BatchInputs ==
  { Item("diagnosis", Diagnosed("Blight", TRUE), TsA),
    Item("irrigation", Profile({}), TsA),
    Item("user_data", Profile({<<"preferences", "invalid">>}), TsA),
    Item("captured_image", Profile({}), TsA) }

BatchBodies == UNION {[1..n -> BatchInputs] : n \in 0..MaxBatch}

(***************************************************************************)
(* Backend: models.                                                        *)
(***************************************************************************)
\* The paths of userSchema (timestamps: true adds createdAt, updatedAt).
UserSchemaPaths ==
  {"name", "email", "password", "phone", "location", "farmDetails",
   "preferences", "subscription", "isActive", "lastLogin", "loginCount",
   "createdAt", "updatedAt"}

\* An optional date: <<>> is null, <<t>> the date t.
NoDate == <<>>

\* A document written over an older one, field by field; pairs is a set of
\* (path, value) pairs with one value per path.
Assign(doc, pairs) ==
  LET paths == {p[1] : p \in pairs}
  IN [f \in DOMAIN doc \cup paths |->
        IF f \in paths THEN (CHOOSE p \in pairs : p[1] = f)[2] ELSE doc[f]]

\* Mongoose strict mode: an update keeps only the paths of the schema.
StrictUpdate(pairs) == {p \in pairs : p[1] \in UserSchemaPaths}

\* User.findByIdAndUpdate(id, update): the schema's paths of the update
\* are set, and updatedAt with them.
findByIdAndUpdate(coll, id, pairs, at) ==
  IF id \in DOMAIN coll
  THEN [coll EXCEPT ![id] =
          Assign(@, StrictUpdate(pairs) \cup {<<"updatedAt", <<at>> >>})]
  ELSE coll

\* user?.lastSync || null on a document read from the collection.
LastSyncOf(coll, id) ==
  IF id \in DOMAIN coll /\ "lastSync" \in DOMAIN coll[id]
  THEN coll[id]["lastSync"]
  ELSE NoDate

\* Whether a profile value passes the schema's validators on save.
ValidValue(v) == v # "invalid"

\* Whether new CropDiagnosis({diagnosis: data.result, ...}) passes the
\* schema's required-field validators on save.
DiagnosisValid(data) == data.disease # "" /\ data.complete

\* The filter of the duplicate check.
DiagnosisKey(userId, data, timestamp) ==
  [user |-> userId, createdAt |-> ParseDate(timestamp),
   disease |-> data.disease]

Matching(coll, key) ==
  {d \in coll : /\ d.user = key.user
                /\ d.createdAt = key.createdAt
                /\ d.disease = key.disease}

\* CropDiagnosis.findOne(filter): the first match in insertion order, as a
\* set with at most one document.
FindOne(coll, key) ==
  LET m == Matching(coll, key)
  IN IF m = {} THEN {}
     ELSE {CHOOSE d \in m : \A e \in m : d.id <= e.id}

NewDiagnosis(oid, userId, data, timestamp) ==
  [id |-> oid, user |-> userId, createdAt |-> ParseDate(timestamp),
   disease |-> data.disease, isOffline |-> TRUE]

(***************************************************************************)
(* Backend: reconcilers. Each takes the database st = [diagnoses, users,   *)
(* nextOid, now] and gives [st, out]: the database it leaves and its       *)
(* outcome, a returned result or a thrown error.                           *)
(***************************************************************************)
Returned(action, id, fields) ==
  [status |-> "success", action |-> action, id |-> id, fields |-> fields,
   error |-> ""]

Thrown(message) ==
  [status |-> "error", action |-> "", id |-> 0, fields |-> {},
   error |-> message]

\* Mutant of syncDiagnosisData: the duplicate check is missing.
syncDiagnosisData_NoDuplicateCheck(st, userId, data, timestamp) ==
  IF data.shape = "null" THEN [st |-> st, out |-> Thrown("TypeError")]
  ELSE IF ~DiagnosisValid(data)
  THEN [st |-> st, out |-> Thrown("ValidationError")]
  ELSE [st |-> [st EXCEPT
                  !.diagnoses = @ \cup {NewDiagnosis(st.nextOid, userId, data,
                                                    timestamp)},
                  !.nextOid = @ + 1],
        out |-> Returned("created", st.nextOid, {})]

syncDiagnosisData(st, userId, data, timestamp) ==
  IF data.shape = "null" THEN [st |-> st, out |-> Thrown("TypeError")]
  ELSE
    LET existing == FindOne(st.diagnoses, DiagnosisKey(userId, data, timestamp))
    IN IF existing # {}
       THEN [st |-> st,
             out |-> Returned("skipped", (CHOOSE d \in existing : TRUE).id, {})]
       ELSE IF ~DiagnosisValid(data)
       THEN [st |-> st, out |-> Thrown("ValidationError")]
       ELSE [st |-> [st EXCEPT
                       !.diagnoses = @ \cup {NewDiagnosis(st.nextOid, userId,
                                                         data, timestamp)},
                       !.nextOid = @ + 1],
             out |-> Returned("created", st.nextOid, {})]

\* Mutant of syncIrrigationData: the record is stored before it is logged.
syncIrrigationData_Stored(st, userId, data, timestamp) ==
  IF data.shape = "null" THEN [st |-> st, out |-> Thrown("TypeError")]
  ELSE [st |-> [st EXCEPT
                  !.diagnoses = @ \cup {NewDiagnosis(st.nextOid, userId, data,
                                                    timestamp)},
                  !.nextOid = @ + 1],
        out |-> Returned("logged", 0, {})]

syncIrrigationData(st, userId, data, timestamp) ==
  IF data.shape = "null" THEN [st |-> st, out |-> Thrown("TypeError")]
  ELSE [st |-> st, out |-> Returned("logged", 0, {})]

syncMarketData(st, userId, data, timestamp) ==
  IF data.shape = "null" THEN [st |-> st, out |-> Thrown("TypeError")]
  ELSE [st |-> st, out |-> Returned("logged", 0, {})]

\* Mutant of AllowedUpdates: email is on the list as well.
AllowedUpdates_WithEmail == {"preferences", "farmDetails", "location", "email"}

\* const allowedUpdates = ['preferences', 'farmDetails', 'location']
AllowedUpdates == {"preferences", "farmDetails", "location"}

syncUserData(st, userId, data, timestamp) ==
  IF userId \notin DOMAIN st.users
  THEN [st |-> st, out |-> Thrown("User not found")]
  ELSE IF data.shape = "null" THEN [st |-> st, out |-> Thrown("TypeError")]
  ELSE
    LET updates == {p \in data.updates : p[1] \in AllowedUpdates}
    IN IF updates = {}
       THEN [st |-> st, out |-> Returned("no_changes", 0, {})]
       ELSE IF \E p \in updates : ~ValidValue(p[2])
       THEN [st |-> st, out |-> Thrown("ValidationError")]
       ELSE [st |-> [st EXCEPT !.users[userId] =
                       Assign(@, updates \cup {<<"updatedAt", <<st.now>> >>})],
             out |-> Returned("updated", 0, {p[1] : p \in updates})]

\* The switch on the item's type; a type outside the four cases leaves
\* syncResult = {}.
Reconcile(st, userId, item) ==
  CASE item.type = "diagnosis" ->
         syncDiagnosisData(st, userId, item.data, item.timestamp)
    [] item.type = "irrigation" ->
         syncIrrigationData(st, userId, item.data, item.timestamp)
    [] item.type = "market" ->
         syncMarketData(st, userId, item.data, item.timestamp)
    [] item.type = "user_data" ->
         syncUserData(st, userId, item.data, item.timestamp)
    [] OTHER -> [st |-> st, out |-> Returned("", 0, {})]

\* One element of the batch response's results array.
ResultEntry(item, out) ==
  [type |-> item.type, status |-> out.status, action |-> out.action,
   id |-> out.id, fields |-> out.fields, error |-> out.error]

RECURSIVE ProcessItems_DropFailed(_, _, _, _, _)
\* Mutant of ProcessItems: the catch block logs the error and records no
\* result for the item.
ProcessItems_DropFailed(st, userId, items, i, results) ==
  IF i > Len(items) THEN [st |-> st, results |-> results]
  ELSE LET r == Reconcile(st, userId, items[i])
       IN ProcessItems_DropFailed(r.st, userId, items, i + 1,
            IF r.out.status = "error" THEN results
            ELSE Append(results, ResultEntry(items[i], r.out)))

RECURSIVE ProcessItems(_, _, _, _, _)
\* The batch route's loop: each item is reconciled on the database the
\* items before it left, inside its own try/catch, and pushes one result.
ProcessItems(st, userId, items, i, results) ==
  IF i > Len(items) THEN [st |-> st, results |-> results]
  ELSE LET r == Reconcile(st, userId, items[i])
       IN ProcessItems(r.st, userId, items, i + 1,
                       Append(results, ResultEntry(items[i], r.out)))

(***************************************************************************)
(* Backend: routes, one request handled at a time.                         *)
(***************************************************************************)
\* The auth middleware lets the request through.
auth(userId) == userId \in DOMAIN users /\ users[userId]["isActive"]

\* Mutant of ValidationErrors: the timestamp rule is missing.
ValidationErrors_NoTimestampRule(item) ==
     (IF item.type \in SyncTypes THEN {} ELSE {"type"})
  \cup (IF item.data.shape # "absent" THEN {} ELSE {"data"})

\* The violations validationResult(req) lists for one item.
ValidationErrors(item) ==
     (IF item.type \in SyncTypes THEN {} ELSE {"type"})
  \cup (IF item.data.shape # "absent" THEN {} ELSE {"data"})
  \cup (IF IsISO8601(item.timestamp) THEN {} ELSE {"timestamp"})

Database == [diagnoses |-> diagnoses, users |-> users, nextOid |-> nextOid,
             now |-> serverNow]

NoResult == Returned("", 0, {})

\* The fields a response can have; a route fills in its own.
Response(status) ==
  [status |-> status, result |-> NoResult, results |-> <<>>, total |-> 0,
   success |-> 0, errors |-> 0, lastSync |-> NoDate, diagnoses |-> 0,
   details |-> {}, deletedCount |-> 0, cutoffDate |-> NoDate]

\* query is the olderThan parameter of the clear route ("" when the
\* request has none).
Request(route, userId, items) ==
  [route |-> route, user |-> userId, items |-> items, query |-> ""]

CountStatus(results, status) ==
  Cardinality({i \in DOMAIN results : results[i].status = status})

\* POST /api/sync
PostSync(userId, item) ==
  /\ reqCount < MaxRequests
  /\ reqCount' = reqCount + 1
  /\ lastReq' = Request("single", userId, <<item>>)
  /\ IF ~auth(userId)
     THEN /\ lastResp' = Response(401)
          /\ UNCHANGED dbVars
     ELSE IF ValidationErrors(item) # {}
     THEN /\ lastResp' = [Response(400) EXCEPT
                            !.details = ValidationErrors(item)]
          /\ UNCHANGED dbVars
     ELSE LET r == Reconcile(Database, userId, item)
          IN /\ diagnoses' = r.st.diagnoses
             /\ users' = r.st.users
             /\ nextOid' = r.st.nextOid
             /\ lastResp' = IF r.out.status = "error"
                            THEN Response(500)
                            ELSE [Response(200) EXCEPT !.result = r.out]
  /\ UNCHANGED <<serverNow, handlers, batchAt, answered>>

\* POST /api/sync/batch
PostSyncBatch(userId, items) ==
  /\ reqCount < MaxRequests
  /\ reqCount' = reqCount + 1
  /\ lastReq' = Request("batch", userId, items)
  /\ IF ~auth(userId)
     THEN /\ lastResp' = Response(401)
          /\ UNCHANGED <<dbVars, batchAt>>
     ELSE IF \E i \in DOMAIN items : ValidationErrors(items[i]) # {}
     THEN /\ lastResp' = [Response(400) EXCEPT !.details =
                            UNION {ValidationErrors(items[i]) :
                                     i \in DOMAIN items}]
          /\ UNCHANGED <<dbVars, batchAt>>
     ELSE LET r == ProcessItems(Database, userId, items, 1, <<>>)
          IN /\ diagnoses' = r.st.diagnoses
             /\ nextOid' = r.st.nextOid
             /\ users' = findByIdAndUpdate(r.st.users, userId,
                           {<<"lastSync", <<serverNow>> >>}, serverNow)
             /\ batchAt' = [batchAt EXCEPT ![userId] = <<serverNow>>]
             /\ lastResp' = [Response(200) EXCEPT
                               !.results = r.results,
                               !.total = Len(items),
                               !.success = CountStatus(r.results, "success"),
                               !.errors = CountStatus(r.results, "error")]
  /\ UNCHANGED <<serverNow, handlers, answered>>

\* The default of the since query parameter: 7 days back.
StatusWindowDays == 7

\* GET /api/sync/status, without a since parameter.
GetSyncStatus(userId) ==
  /\ reqCount < MaxRequests
  /\ reqCount' = reqCount + 1
  /\ lastReq' = Request("status", userId, <<>>)
  /\ lastResp' =
       IF ~auth(userId) THEN Response(401)
       ELSE [Response(200) EXCEPT
               !.lastSync = LastSyncOf(users, userId),
               !.diagnoses = Cardinality(
                  {d \in diagnoses :
                     /\ d.user = userId
                     /\ d.createdAt >= serverNow - StatusWindowDays})]
  /\ UNCHANGED <<dbVars, serverNow, handlers, batchAt, answered>>

\* POST /api/crops/diagnose: the record of an image analysed online.
\* isOffline takes the schema's default, createdAt the time of the save.
Diagnose(userId) ==
  /\ reqCount < MaxRequests
  /\ reqCount' = reqCount + 1
  /\ lastReq' = Request("diagnose", userId, <<>>)
  /\ IF ~auth(userId)
     THEN /\ lastResp' = Response(401)
          /\ UNCHANGED dbVars
     ELSE /\ diagnoses' = diagnoses \cup
                 {[id |-> nextOid, user |-> userId, createdAt |-> serverNow,
                   disease |-> "Blight", isOffline |-> FALSE]}
          /\ nextOid' = nextOid + 1
          /\ users' = users
          /\ lastResp' = Response(200)
  /\ UNCHANGED <<serverNow, handlers, batchAt, answered>>

\* The values of the olderThan query parameter: the three the switch
\* names, one it does not, and "" for a request without the parameter.
OlderThanValues == {"7d", "30d", "90d", "1y", ""}

\* The switch on olderThan, in days before now.
CutoffDays(olderThan) ==
  CASE olderThan = "7d" -> 7
    [] olderThan = "30d" -> 30
    [] olderThan = "90d" -> 90
    [] OTHER -> 30

\* Mutant of ClearFilter: the isOffline condition is missing.
ClearFilter_AnyOrigin(coll, userId, cutoffDate) ==
  {d \in coll : d.user = userId /\ d.createdAt < cutoffDate}

\* The filter of CropDiagnosis.deleteMany.
ClearFilter(coll, userId, cutoffDate) ==
  {d \in coll : /\ d.user = userId
                /\ d.createdAt < cutoffDate
                /\ d.isOffline}

\* DELETE /api/sync/clear
ClearOld(userId, olderThan) ==
  /\ reqCount < MaxRequests
  /\ reqCount' = reqCount + 1
  /\ lastReq' = [Request("clear", userId, <<>>) EXCEPT !.query = olderThan]
  /\ IF ~auth(userId)
     THEN /\ lastResp' = Response(401)
          /\ UNCHANGED dbVars
     ELSE LET cutoffDate == serverNow - CutoffDays(olderThan)
              deleted == ClearFilter(diagnoses, userId, cutoffDate)
          IN /\ diagnoses' = diagnoses \ deleted
             /\ UNCHANGED <<users, nextOid>>
             /\ lastResp' = [Response(200) EXCEPT
                               !.deletedCount = Cardinality(deleted),
                               !.cutoffDate = <<cutoffDate>>]
  /\ UNCHANGED <<serverNow, handlers, batchAt, answered>>

\* Time passes on the server, up to the day after a week, a month or a
\* quarter has passed since day 0.
ServerAdvance ==
  \E days \in {7, 30, 90} :
    /\ serverNow < days + 1
    /\ serverNow' = days + 1
    /\ UNCHANGED <<dbVars, lastReq, lastResp, handlers, reqCount, batchAt,
                   answered>>

\* A day passes on the server.
ServerTick ==
  /\ serverNow < MaxServerNow
  /\ serverNow' = serverNow + 1
  /\ UNCHANGED <<dbVars, lastReq, lastResp, handlers, reqCount, batchAt,
                 answered>>

NewUser ==
  [isActive |-> TRUE, email |-> "farmer", preferences |-> "en",
   updatedAt |-> <<0>>]

ServerInit ==
  /\ users = [u \in Users |-> NewUser]
  /\ diagnoses = {}
  /\ nextOid = 1
  /\ serverNow = 1
  /\ lastReq = Request("none", Anonymous, <<>>)
  /\ lastResp = Response(0)
  /\ handlers = {}
  /\ reqCount = 0
  /\ batchAt = [u \in Users |-> NoDate]
  /\ answered = {}

\* A step of the sync routes: the client's state and the outbreaks are
\* not touched.
Server(A) == A /\ UNCHANGED <<clientVars, outbreakVars, lastDelivery>>

\* A request whose token names no active user: auth answers 401 before the
\* validators and the route's handler see the body.
Callers == Users \cup {Anonymous}

ServerNext ==
  \/ Server(\E u \in Callers, item \in SingleInputs :
              (auth(u) \/ item = Item("market", Profile({}), TsA))
              /\ PostSync(u, item))
  \/ Server(\E u \in Callers, items \in BatchBodies :
              (auth(u) \/ items = <<>>) /\ PostSyncBatch(u, items))
  \/ Server(\E u \in Callers : GetSyncStatus(u))
  \/ Server(ServerTick)

\* Bodies for the validators: one that passes, and one for each way an
\* item can fail them (type outside the list, data missing, timestamp a
\* number), alone and together.
RejectInputs ==
  { Item("diagnosis", Diagnosed("Blight", TRUE), TsA),
    Item("captured_image", Diagnosed("Blight", TRUE), TsA),
    Item("diagnosis", Absent, TsA),
    Item("diagnosis", Diagnosed("Blight", TRUE), TsEpoch),
    Item("uploaded_image", Absent, TsEpoch) }

RejectBodies == UNION {[1..n -> RejectInputs] : n \in 0..MaxBatch}

ValidationNext ==
  \/ Server(\E u \in Users, item \in RejectInputs : PostSync(u, item))
  \/ Server(\E u \in Users, items \in RejectBodies : PostSyncBatch(u, items))

\* Profile payloads: fields on the allow-list, fields off it, both, none,
\* and a value the schema rejects on save.
ProfileInputs ==
  { Item("user_data", Profile({<<"preferences", "hi">>}), TsA),
    Item("user_data", Profile({<<"email", "x@y">>,
                               <<"subscription", "premium">>}), TsA),
    Item("user_data", Profile({<<"farmDetails", "loamy">>,
                               <<"location", "north">>,
                               <<"email", "x@y">>}), TsA),
    Item("user_data", Profile({<<"preferences", "invalid">>,
                               <<"location", "north">>}), TsA),
    Item("user_data", Profile({}), TsA) }

ProfileNext ==
  \/ Server(\E u \in Users, item \in ProfileInputs : PostSync(u, item))
  \/ Server(\E u \in Users, item \in ProfileInputs :
              PostSyncBatch(u, <<item>>))
  \/ Server(ServerTick)

(***************************************************************************)
(* Backend: single-endpoint diagnosis requests running concurrently. A     *)
(* handler is suspended at each await: before findOne and before save.     *)
(***************************************************************************)
\* Diagnosis bodies that pass validation.
RaceInputs ==
  { Item("diagnosis", Diagnosed("Blight", TRUE), TsA),
    Item("diagnosis", Diagnosed("Blight", TRUE), TsA2),
    Item("diagnosis", Diagnosed("Rust", TRUE), TsB) }

\* The routes that write and delete diagnosis records, over a quarter.
ClearInputs ==
  { Item("diagnosis", Diagnosed("Blight", TRUE), TsA),
    Item("diagnosis", Diagnosed("Rust", TRUE), TsB) }

ClearNext ==
  \/ Server(\E u \in Users, item \in ClearInputs : PostSync(u, item))
  \/ Server(\E u \in Users : \E items \in [1..2 -> ClearInputs] :
              PostSyncBatch(u, items))
  \/ Server(\E u \in Users : Diagnose(u))
  \/ Server(\E u \in Callers, olderThan \in OlderThanValues :
              ClearOld(u, olderThan))
  \/ Server(ServerAdvance)

Answer(h, status, out) ==
  [hid |-> h.hid, key |-> DiagnosisKey(h.user, h.item.data, h.item.timestamp),
   status |-> status, action |-> out.action, id |-> out.id]

\* POST /api/sync reaches syncDiagnosisData.
RaceStart ==
  \E u \in Users, item \in RaceInputs :
    /\ Cardinality(handlers) + Cardinality(answered) < MaxHandlers
    /\ auth(u) /\ ValidationErrors(item) = {}
    /\ handlers' = handlers \cup
         {[hid |-> Cardinality(handlers) + Cardinality(answered) + 1,
           user |-> u, item |-> item, pc |-> "findOne"]}
    /\ UNCHANGED <<dbVars, serverNow, lastReq, lastResp, reqCount, batchAt,
                   answered>>

\* await CropDiagnosis.findOne(...) resolves.
RaceFindOne ==
  \E h \in handlers :
    /\ h.pc = "findOne"
    /\ LET existing == FindOne(diagnoses,
                         DiagnosisKey(h.user, h.item.data, h.item.timestamp))
       IN IF existing # {}
          THEN /\ handlers' = handlers \ {h}
               /\ answered' = answered \cup
                    {Answer(h, 200, Returned("skipped",
                               (CHOOSE d \in existing : TRUE).id, {}))}
          ELSE /\ handlers' = (handlers \ {h}) \cup {[h EXCEPT !.pc = "save"]}
               /\ UNCHANGED answered
    /\ UNCHANGED <<dbVars, serverNow, lastReq, lastResp, reqCount, batchAt>>

\* await diagnosis.save() resolves.
RaceSave ==
  \E h \in handlers :
    /\ h.pc = "save"
    /\ handlers' = handlers \ {h}
    /\ IF DiagnosisValid(h.item.data)
       THEN /\ diagnoses' = diagnoses \cup
                 {NewDiagnosis(nextOid, h.user, h.item.data, h.item.timestamp)}
            /\ nextOid' = nextOid + 1
            /\ answered' = answered \cup
                 {Answer(h, 200, Returned("created", nextOid, {}))}
       ELSE /\ UNCHANGED <<diagnoses, nextOid>>
            /\ answered' = answered \cup {Answer(h, 500, Thrown(""))}
    /\ UNCHANGED <<users, serverNow, lastReq, lastResp, reqCount, batchAt>>

RaceNext ==
  \/ Server(RaceStart)
  \/ Server(RaceFindOne)
  \/ Server(RaceSave)

(***************************************************************************)
(* Backend: disease outbreaks. Names are sequences of characters, so that  *)
(* the pattern match of the nearby lookup is computed on them.             *)
(***************************************************************************)
UpperCase == <<"A", "B", "C", "D", "E", "F", "G", "H", "I", "J", "K", "L", "M",
               "N", "O", "P", "Q", "R", "S", "T", "U", "V", "W", "X", "Y", "Z">>
LowerCase == <<"a", "b", "c", "d", "e", "f", "g", "h", "i", "j", "k", "l", "m",
               "n", "o", "p", "q", "r", "s", "t", "u", "v", "w", "x", "y", "z">>

\* The lower-case letter of each upper-case letter.
LowerOf ==
  [c \in {UpperCase[i] : i \in DOMAIN UpperCase} |->
     LowerCase[CHOOSE i \in DOMAIN UpperCase : UpperCase[i] = c]]

\* One character under the 'i' flag.
ToLower(c) == IF c \in DOMAIN LowerOf THEN LowerOf[c] ELSE c

RECURSIVE ParensBalanced(_, _, _)
\* Whether new RegExp(p) accepts p's parentheses: each ")" closes an open
\* "(" and none stays open.
ParensBalanced(p, i, depth) ==
  IF i > Len(p) THEN depth = 0
  ELSE IF p[i] = "(" THEN ParensBalanced(p, i + 1, depth + 1)
  ELSE IF p[i] = ")" THEN depth > 0 /\ ParensBalanced(p, i + 1, depth - 1)
  ELSE ParensBalanced(p, i + 1, depth)

\* new RegExp(p, 'i') does not throw. The names here are made of letters,
\* spaces and parentheses.
ValidPattern(p) == ParensBalanced(p, 1, 0)

IsParen(c) == c \in {"(", ")"}

\* What a pattern of letters, spaces and groups has to find in the text:
\* the parentheses group, they match no character.
PatternBody(p) == SelectSeq(p, LAMBDA c : ~IsParen(c))

\* new RegExp(p, 'i').test(s): the pattern is found somewhere in s.
RegExpTest(p, s) ==
  LET b == PatternBody(p)
  IN \E k \in 0..(Len(s) - Len(b)) :
       \A j \in 1..Len(b) : ToLower(s[k + j]) = ToLower(b[j])

\* Disease and crop names of the reports.
Rot == <<"R", "o", "t">>
RotLower == <<"r", "o", "t">>
DryRot == <<"D", "r", "y", " ", "R", "o", "t">>
RotStem == <<"R", "o", "t", " ", "(", "s", ")">>
RotOpen == <<"R", "o", "t", " ", "(">>
Rice == <<"R", "i", "c", "e">>
Ragi == <<"R", "a", "g", "i">>

\* enum: ['low', 'medium', 'high', 'critical'] and ['active', 'contained',
\* 'resolved']
Severities == {"low", "medium", "high", "critical"}
Statuses == {"active", "contained", "resolved"}

\* Coordinates are in hundredths of a degree; the lookup's 0.09 degrees.
BoxHundredths == 9

\* The body of POST /api/outbreaks/report (address and region are present
\* in every body here).
Report(disease, crop, lat, lon, severity, affectedArea) ==
  [disease |-> disease, crop |-> crop, latitude |-> lat, longitude |-> lon,
   severity |-> severity, affectedArea |-> affectedArea]

\* Reports of the first hours of an outbreak: the same disease under
\* several spellings, another crop, places inside and outside the box,
\* small and large areas, and a body the validators reject.
ReportInputs ==
  { Report(Rot, Rice, 1200, 7700, "critical", 0),
    Report(Rot, Rice, 1200, 7700, "low", 50),
    Report(RotLower, Rice, 1208, 7700, "low", 250),
    Report(Rot, Rice, 1210, 7700, "high", 0),
    Report(DryRot, Rice, 1200, 7700, "low", 0),
    Report(RotStem, Rice, 1200, 7700, "low", 0),
    Report(Rot, Ragi, 1200, 7700, "medium", 200),
    Report(RotOpen, Rice, 1200, 7700, "low", 0),
    Report(Rot, Rice, 1200, 7700, "severe", 0) }

\* The report that keeps arriving afterwards.
FollowUpReport == Report(Rot, Rice, 1200, 7700, "low", 0)

\* The validator chain of the report route.
ValidReport(r) ==
  /\ Len(r.disease) >= 1
  /\ Len(r.crop) >= 1
  /\ r.latitude \in (0 - 9000)..9000
  /\ r.longitude \in (0 - 18000)..18000
  /\ r.severity \in Severities
  /\ r.affectedArea >= 0

(***************************************************************************)
(* Backend: the DiseaseOutbreak model.                                     *)
(***************************************************************************)
\* One element of reportedBy.
ReportEntry(userId, r) ==
  [userId |-> userId, severity |-> r.severity, affectedArea |-> r.affectedArea]

\* new DiseaseOutbreak({...}) of the report route, with the schema's
\* defaults (status 'active', confirmedCases 1); alertsSent is kept as the
\* length of the array.
NewOutbreak(id, userId, r) ==
  [id |-> id, disease |-> r.disease, crop |-> r.crop,
   latitude |-> r.latitude, longitude |-> r.longitude,
   status |-> "active", severity |-> r.severity,
   affectedArea |-> r.affectedArea, confirmedCases |-> 1,
   reportedBy |-> <<ReportEntry(userId, r)>>, alertsSent |-> 0]

\* The severity addReport leaves in the document.
Escalate(confirmedCases, affectedArea, severity) ==
  IF confirmedCases >= 20 \/ affectedArea >= 500 THEN "critical"
  ELSE IF confirmedCases >= 10 \/ affectedArea >= 200 THEN "high"
  ELSE IF confirmedCases >= 5 \/ affectedArea >= 50 THEN "medium"
  ELSE severity

\* addReport on a loaded document, up to its call of save().
addReport(doc, reportData) ==
  LET reportedBy == Append(doc.reportedBy, reportData)
      area == doc.affectedArea + reportData.affectedArea
  IN [doc EXCEPT !.reportedBy = reportedBy,
                 !.confirmedCases = Len(reportedBy),
                 !.affectedArea = area,
                 !.severity = Escalate(Len(reportedBy), area, doc.severity)]

\* updateStatus on a loaded document, up to its call of save().
updateStatus(doc, newStatus) == [doc EXCEPT !.status = newStatus]

\* sendOutbreakAlerts on a loaded document, up to its call of save().
sendOutbreakAlerts(doc) == [doc EXCEPT !.alertsSent = @ + 1]

\* document.save() of a document loaded as `before` and changed in memory
\* to `after`, applied to the stored document: the elements pushed onto an
\* array are appended ($push), a changed path is overwritten ($set), an
\* unchanged path is left as stored.
SaveChanges(stored, before, after) ==
  [f \in DOMAIN stored |->
     IF f = "reportedBy"
     THEN stored.reportedBy \o SubSeq(after.reportedBy,
                                      Len(before.reportedBy) + 1,
                                      Len(after.reportedBy))
     ELSE IF f = "alertsSent"
     THEN stored.alertsSent + (after.alertsSent - before.alertsSent)
     ELSE IF after[f] # before[f] THEN after[f]
     ELSE stored[f]]

\* The filter of the report route's DiseaseOutbreak.find.
Nearby(coll, r) ==
  {o \in coll :
     /\ RegExpTest(r.disease, o.disease)
     /\ RegExpTest(r.crop, o.crop)
     /\ o.latitude >= r.latitude - BoxHundredths
     /\ o.latitude <= r.latitude + BoxHundredths
     /\ o.longitude >= r.longitude - BoxHundredths
     /\ o.longitude <= r.longitude + BoxHundredths
     /\ o.status # "resolved"}

\* nearbyOutbreaks[0]: the match stored first.
FirstOf(found) == CHOOSE o \in found : \A e \in found : o.id <= e.id

\* Mutant of AlertDue: only a critical outbreak raises the alert.
AlertDue_CriticalOnly(doc) == doc.severity = "critical"

\* The condition of the alert, on the document the handler holds.
AlertDue(doc) == doc.severity = "critical" \/ doc.confirmedCases >= 10

\* The stored document with the given id replaced.
Replace(coll, doc) == {o \in coll : o.id # doc.id} \cup {doc}

(***************************************************************************)
(* Backend: the outbreak routes, one request handled at a time.            *)
(***************************************************************************)
NoReport == Report(<<>>, <<>>, 0, 0, "", 0)

\* The request handled last and the fields of its answer; invoked is the
\* number of sendOutbreakAlerts calls the handler made.
ReportAnswer(userId, r, status, isNewOutbreak, alertsSent, id, invoked) ==
  [route |-> "report", user |-> userId, report |-> r, status |-> status,
   isNewOutbreak |-> isNewOutbreak, alertsSent |-> alertsSent, id |-> id,
   invoked |-> invoked]

StatusAnswer(userId, id, status) ==
  [route |-> "status", user |-> userId, report |-> NoReport, status |-> status,
   isNewOutbreak |-> FALSE, alertsSent |-> FALSE, id |-> id, invoked |-> 0]

\* POST /api/outbreaks/report
ReportOutbreak(userId, r) ==
  /\ auth(userId)
  /\ reportCount < MaxReports
  /\ reportCount' = reportCount + 1
  /\ IF ~ValidReport(r)
     THEN /\ lastReport' = ReportAnswer(userId, r, 400, FALSE, FALSE, 0, 0)
          /\ UNCHANGED <<outbreaks, nextOutbreakId, alertCalls>>
     ELSE IF ~(ValidPattern(r.disease) /\ ValidPattern(r.crop))
     THEN /\ lastReport' = ReportAnswer(userId, r, 500, FALSE, FALSE, 0, 0)
          /\ UNCHANGED <<outbreaks, nextOutbreakId, alertCalls>>
     ELSE LET nearbyOutbreaks == Nearby(outbreaks, r)
              isNewOutbreak == nearbyOutbreaks = {}
              saved == IF isNewOutbreak
                       THEN NewOutbreak(nextOutbreakId, userId, r)
                       ELSE addReport(FirstOf(nearbyOutbreaks),
                                      ReportEntry(userId, r))
              invoked == IF AlertDue(saved) THEN 1 ELSE 0
              outbreak == IF AlertDue(saved) THEN sendOutbreakAlerts(saved)
                          ELSE saved
          IN /\ outbreaks' = Replace(outbreaks, outbreak)
             /\ nextOutbreakId' = IF isNewOutbreak THEN nextOutbreakId + 1
                                  ELSE nextOutbreakId
             /\ alertCalls' = alertCalls + invoked
             /\ lastReport' = ReportAnswer(userId, r, 201, isNewOutbreak,
                                           AlertDue(outbreak), outbreak.id,
                                           invoked)
  /\ UNCHANGED <<obHandlers, statusCount>>

\* PUT /api/outbreaks/:id/status
UpdateStatus(userId, id, newStatus) ==
  /\ auth(userId)
  /\ statusCount' = statusCount + 1
  /\ IF \E o \in outbreaks : o.id = id
     THEN LET outbreak == CHOOSE o \in outbreaks : o.id = id
          IN /\ outbreaks' = Replace(outbreaks, updateStatus(outbreak, newStatus))
             /\ lastReport' = StatusAnswer(userId, id, 200)
     ELSE /\ lastReport' = StatusAnswer(userId, id, 404)
          /\ UNCHANGED outbreaks
  /\ UNCHANGED <<nextOutbreakId, obHandlers, reportCount, alertCalls>>

OutbreakInit ==
  /\ outbreaks = {}
  /\ nextOutbreakId = 1
  /\ lastReport = [StatusAnswer(Anonymous, 0, 0) EXCEPT !.route = "none"]
  /\ obHandlers = {}
  /\ reportCount = 0
  /\ statusCount = 0
  /\ alertCalls = 0

\* A step of the outbreak routes: the client's state and the sync routes'
\* state are not touched.
Outbreaks(A) == A /\ UNCHANGED <<clientVars, serverVars, lastDelivery>>

\* Reports of several kinds while the outbreak is young, the same report
\* again and again afterwards, and status updates.
OutbreakNext ==
  \/ Outbreaks(\E u \in Users, r \in ReportInputs :
                 reportCount < MaxVariedReports /\ ReportOutbreak(u, r))
  \/ Outbreaks(reportCount >= MaxVariedReports
               /\ ReportOutbreak("u1", FollowUpReport))
  \/ Outbreaks(\E id \in 1..nextOutbreakId, s \in Statuses :
                 statusCount < MaxStatusUpdates /\ UpdateStatus("u1", id, s))

\* Reports of one disease and crop at two places 0.05 degrees apart, and
\* status updates that resolve an outbreak and open it again.
ReopenReports ==
  { Report(Rot, Rice, 1200, 7700, "low", 0),
    Report(RotLower, Rice, 1205, 7700, "low", 0) }

ReopenNext ==
  \/ Outbreaks(\E r \in ReopenReports :
                 reportCount < MaxReopenReports /\ ReportOutbreak("u1", r))
  \/ Outbreaks(\E id \in 1..nextOutbreakId, s \in Statuses :
                 statusCount < MaxReopenUpdates /\ UpdateStatus("u1", id, s))

(***************************************************************************)
(* Backend: report handlers running concurrently. A handler is suspended   *)
(* at its awaits: before the find resolves and before the save resolves.   *)
(***************************************************************************)
RaceReports ==
  { Report(Rot, Rice, 1200, 7700, "low", 0),
    Report(Rot, Rice, 1200, 7700, "critical", 50) }

NoDocument == NewOutbreak(0, Anonymous, NoReport)

\* POST /api/outbreaks/report is called and awaits DiseaseOutbreak.find.
RaceReportStart ==
  \E u \in Users, r \in RaceReports :
    /\ auth(u) /\ ValidReport(r)
    /\ ValidPattern(r.disease) /\ ValidPattern(r.crop)
    /\ reportCount < MaxReportHandlers
    /\ reportCount' = reportCount + 1
    /\ obHandlers' = obHandlers \cup
         {[hid |-> reportCount + 1, user |-> u, report |-> r, pc |-> "find",
           isNewOutbreak |-> FALSE, before |-> NoDocument,
           after |-> NoDocument]}
    /\ UNCHANGED <<outbreaks, nextOutbreakId, lastReport, statusCount,
                   alertCalls>>

\* The find resolves; the handler runs up to the save() of addReport or of
\* the new document.
RaceReportFind ==
  \E h \in obHandlers :
    /\ h.pc = "find"
    /\ LET nearbyOutbreaks == Nearby(outbreaks, h.report)
       IN obHandlers' = (obHandlers \ {h}) \cup
            {IF nearbyOutbreaks = {}
             THEN [h EXCEPT !.pc = "save", !.isNewOutbreak = TRUE]
             ELSE [h EXCEPT !.pc = "save",
                            !.before = FirstOf(nearbyOutbreaks),
                            !.after = addReport(FirstOf(nearbyOutbreaks),
                                        ReportEntry(h.user, h.report))]}
    /\ UNCHANGED <<outbreaks, nextOutbreakId, lastReport, reportCount,
                   statusCount, alertCalls>>

\* Mutant of RaceReportSave: a handler that found nothing looks again
\* when it saves and appends to an outbreak stored in the meantime.
RaceReportSave_FindAgain ==
  \E h \in obHandlers :
    /\ h.pc = "save"
    /\ obHandlers' = obHandlers \ {h}
    /\ LET again == Nearby(outbreaks, h.report)
           isNew == h.isNewOutbreak /\ again = {}
           loaded == IF isNew THEN NewOutbreak(nextOutbreakId, h.user, h.report)
                     ELSE IF h.isNewOutbreak THEN FirstOf(again)
                     ELSE h.before
           held == IF isNew THEN loaded
                   ELSE IF h.isNewOutbreak
                   THEN addReport(loaded, ReportEntry(h.user, h.report))
                   ELSE h.after
           stored == IF isNew THEN held
                     ELSE CHOOSE o \in outbreaks : o.id = loaded.id
           invoked == IF AlertDue(held) THEN 1 ELSE 0
           outbreak == IF AlertDue(held) THEN sendOutbreakAlerts(held)
                       ELSE held
       IN /\ outbreaks' = Replace(outbreaks,
                                  SaveChanges(stored, loaded, outbreak))
          /\ nextOutbreakId' = IF isNew THEN nextOutbreakId + 1
                               ELSE nextOutbreakId
          /\ alertCalls' = alertCalls + invoked
          /\ lastReport' = ReportAnswer(h.user, h.report, 201, isNew,
                                        AlertDue(outbreak), outbreak.id,
                                        invoked)
    /\ UNCHANGED <<reportCount, statusCount>>

\* The save resolves and the handler runs to its answer. The alert's own
\* save only pushes onto alertsSent, so it is taken in the same step.
RaceReportSave ==
  \E h \in obHandlers :
    /\ h.pc = "save"
    /\ obHandlers' = obHandlers \ {h}
    /\ LET held == IF h.isNewOutbreak
                   THEN NewOutbreak(nextOutbreakId, h.user, h.report)
                   ELSE h.after
           loaded == IF h.isNewOutbreak THEN held ELSE h.before
           stored == IF h.isNewOutbreak THEN held
                     ELSE CHOOSE o \in outbreaks : o.id = h.before.id
           invoked == IF AlertDue(held) THEN 1 ELSE 0
           outbreak == IF AlertDue(held) THEN sendOutbreakAlerts(held)
                       ELSE held
       IN /\ outbreaks' = Replace(outbreaks,
                                  SaveChanges(stored, loaded, outbreak))
          /\ nextOutbreakId' = IF h.isNewOutbreak THEN nextOutbreakId + 1
                               ELSE nextOutbreakId
          /\ alertCalls' = alertCalls + invoked
          /\ lastReport' = ReportAnswer(h.user, h.report, 201,
                                        h.isNewOutbreak, AlertDue(outbreak),
                                        outbreak.id, invoked)
    /\ UNCHANGED <<reportCount, statusCount>>

OutbreakRaceNext ==
  \/ Outbreaks(RaceReportStart)
  \/ Outbreaks(RaceReportFind)
  \/ Outbreaks(RaceReportSave)
  \/ Outbreaks(\E id \in 1..nextOutbreakId, s \in Statuses :
                 statusCount < MaxStatusUpdates /\ UpdateStatus("u1", id, s))

(***************************************************************************)
(* The page's delivery attempts sent to POST /api/sync: the body           *)
(* syncDataItem builds from a record, and the endpoint's answer to it.     *)
(***************************************************************************)
\* JSON.stringify writes the record's timestamp, a number, as its decimal
\* digits; the validators read the field as that string.
TimestampSent(item) == ToString(item.timestamp)

\* The data the Crop Diagnosis page saves with a 'diagnosis' record (an
\* object with the result of the analysis); other pages save an object.
DataSaved(type) ==
  IF type = "diagnosis" THEN Diagnosed("Blight", TRUE) ELSE Profile({})

\* The body of syncDataItem's request.
BodyOf(item) == Item(item.type, DataSaved(item.type), TimestampSent(item))

\* The answer the page gets: the status and the reconciler's outcome.
AnswerOf(resp) == [status |-> resp.status, action |-> resp.result.action]

SaveDeliverySent ==
  \E item \in saves, u \in Users :
    /\ PostSync(u, BodyOf(item))
    /\ SaveDelivery(item, ResponseOf(AnswerOf(lastResp')))
    /\ lastDelivery' = Delivery(item, AnswerOf(lastResp'))
    /\ UNCHANGED outbreakVars

DrainItemSent ==
  \E d \in drains, u \in Users :
    \E i \in DOMAIN d.items :
      /\ PostSync(u, BodyOf(d.items[i]))
      /\ DrainItem(d, i, ResponseOf(AnswerOf(lastResp')))
      /\ lastDelivery' = Delivery(d.items[i], AnswerOf(lastResp'))
      /\ UNCHANGED outbreakVars

EndToEndNext ==
  \/ Client(InitDB)
  \/ Client(BrowserOnline)
  \/ Client(BrowserOffline)
  \/ Client(\E type \in SaveTypes : saveOfflineData(type))
  \/ Client(syncPendingData)
  \/ SaveDeliverySent
  \/ DrainItemSent
  \/ Client(DrainFinish)

(***************************************************************************)
(* Specifications.                                                         *)
(***************************************************************************)
Init == ClientInit /\ ServerInit /\ OutbreakInit /\ lastDelivery = NoDelivery

Next ==
  \/ Client(InitDB)
  \/ Client(BrowserOnline)
  \/ Client(BrowserOffline)
  \/ Client(toggleOnlineMode)
  \/ Client(Tick)
  \/ Client(\E type \in SaveTypes : saveOfflineData(type))
  \/ Client(SaveDeliveryDone)
  \/ Client(syncPendingData)
  \/ Client(DrainItemDone)
  \/ Client(DrainFinish)
  \/ Client(clearSyncedData)
  \/ Client(BackgroundSyncStart)
  \/ Client(BackgroundSyncItem)

Spec == Init /\ [][Next]_vars

\* The backend alone: the client stays as constructed, with the link up.
ServerOnlyInit == Init /\ navOnLine

SpecServer == ServerOnlyInit /\ [][ServerNext]_vars

SpecRace == ServerOnlyInit /\ [][RaceNext]_vars

\* The type argument of every saveOfflineData call in the application:
\* the diagnosis page (camera capture, file upload, analysis), the
\* irrigation page and the market page.
CallSiteTypes ==
  {"captured_image", "uploaded_image", "diagnosis", "irrigation_data",
   "market_data"}

CallSitesNext ==
  \/ Client(InitDB)
  \/ Client(BrowserOnline)
  \/ Client(BrowserOffline)
  \/ Client(\E type \in CallSiteTypes : saveOfflineData(type))
  \/ Client(SaveDeliveryDone)

\* The pages' calls of saveOfflineData.
SpecCallSites == Init /\ [][CallSitesNext]_vars

\* The diagnosis page used over more than a week: an image is uploaded,
\* later it is analysed; the list is reloaded and drained.
OrderTypes == {"uploaded_image", "diagnosis"}

OrderNext ==
  \/ Client(InitDB)
  \/ Client(BrowserOnline)
  \/ Client(BrowserOffline)
  \/ Client(toggleOnlineMode)
  \/ Client(Tick)
  \/ Client(\E type \in OrderTypes : saveOfflineData(type))
  \/ Client(SaveDeliveryDone)
  \/ Client(syncPendingData)
  \/ Client(DrainItemDone)
  \/ Client(DrainFinish)

SpecOrder == Init /\ [][OrderNext]_vars

DeliveryNext ==
  \/ Client(InitDB)
  \/ Client(BrowserOnline)
  \/ Client(BrowserOffline)
  \/ Client(\E type \in SaveTypes : saveOfflineData(type))
  \/ Client(syncPendingData)
  \/ Page(SaveDeliveryAnswered)
  \/ Page(DrainItemAnswered)
  \/ Client(DrainFinish)

\* The page's saves and drains, each delivery attempt handled by the
\* backend's POST /api/sync.
SpecEndToEnd == Init /\ [][EndToEndNext]_vars

\* The page's saves and drains, with the answer of each delivery attempt.
SpecDelivery == Init /\ [][DeliveryNext]_vars

\* The outbreak routes, requests handled one at a time.
SpecOutbreak == ServerOnlyInit /\ [][OutbreakNext]_vars

\* The report route and the status route, one request at a time, with
\* outbreaks resolved and opened again.
SpecReopen == ServerOnlyInit /\ [][ReopenNext]_vars

\* The outbreak routes with report handlers interleaved at their awaits.
SpecOutbreakRace == ServerOnlyInit /\ [][OutbreakRaceNext]_vars

\* The clear route among the routes that create diagnosis records.
SpecClear == ServerOnlyInit /\ [][ClearNext]_vars

\* The two POST routes on profile payloads.
SpecProfile == ServerOnlyInit /\ [][ProfileNext]_vars

\* The two POST routes on bodies that pass or fail the validators.
SpecValidation == ServerOnlyInit /\ [][ValidationNext]_vars

(***************************************************************************)
(* Properties of the client.                                               *)
(***************************************************************************)
\* The local records with the given id.
LocalCopies(store, id) == {r \in store : r.id = id}

\* A drain all of whose deliveries were answered 2xx.
AllOk(d) == \A i \in DOMAIN d.items : d.res[i] = "ok"

C2_OnlineTriggersDrain ==
  [][(~isOnline /\ isOnline') => drainCalls' = drainCalls + 1]_vars

\* C3 (original statement): a record with a failed delivery attempt that is
\* not synced is in the pending queue, where the next drain finds it.
C3_FailedStaysQueued ==
  \A r \in offlineData :
    (r.id \in failedIds /\ ~r.synced /\ r \notin saves)
    => r.id \in Ids(pendingStore) /\ r.id \in Ids(Range(pendingSync))

\* C6 (original statement): a call of clearSyncedData on an open database
\* deletes exactly the synced records older than the retention window.
C6_PruneDeletesOldSynced ==
  [][(pruneRuns' # pruneRuns /\ db)
     => offlineData' = offlineData \ OldSynced]_vars

C8_EffectiveOnline == isOnline = (navOnLine /\ ~forceOffline)

\* Witness of C8: the link is up (an 'online' event has been handled or the
\* link was up from the start) while the user forces offline.
C8_Witness == navOnLine /\ forceOffline /\ ~isOnline /\ db

(***************************************************************************)
(* Properties of the backend.                                              *)
(***************************************************************************)
\* A diagnosis item that passes the route's validators and the schema's.
ValidDiagnosisItem(item) ==
  /\ item.type = "diagnosis"
  /\ ValidationErrors(item) = {}
  /\ item.data.shape = "object"
  /\ DiagnosisValid(item.data)

ItemKey(userId, item) == DiagnosisKey(userId, item.data, item.timestamp)

\* The step handles a request.
Handled == reqCount' = reqCount + 1

\* C4, single endpoint: a valid diagnosis whose key no record has is
\* answered 'created' and leaves exactly one record with the key; the same
\* user, timestamp and disease sent again right after is answered
\* 'skipped' with the first record's id, and one record remains.
C4_Single ==
  (/\ Handled
   /\ lastReq'.route = "single"
   /\ auth(lastReq'.user)
   /\ ValidDiagnosisItem(lastReq'.items[1]))
  => LET u == lastReq'.user
         k == ItemKey(u, lastReq'.items[1])
     IN /\ Matching(diagnoses, k) = {}
           => /\ lastResp'.status = 200
              /\ lastResp'.result.action = "created"
              /\ Cardinality(Matching(diagnoses', k)) = 1
              /\ \A d \in Matching(diagnoses', k) : d.id = lastResp'.result.id
        /\ (/\ lastReq.route = "single"
            /\ lastReq.user = u
            /\ lastResp.status = 200
            /\ ValidDiagnosisItem(lastReq.items[1])
            /\ ItemKey(u, lastReq.items[1]) = k)
           => /\ lastResp'.status = 200
              /\ lastResp'.result.action = "skipped"
              /\ lastResp'.result.id = lastResp.result.id
              /\ Cardinality(Matching(diagnoses', k)) = 1

\* C4, batch: two neighbouring items with the same key, the first being
\* the first of its key, get 'created' and then 'skipped' with the same id.
C4_Batch ==
  (Handled /\ lastReq'.route = "batch" /\ lastResp'.status = 200)
  => LET u == lastReq'.user
         items == lastReq'.items
         results == lastResp'.results
     IN \A i \in 1..(Len(items) - 1) :
          LET k == ItemKey(u, items[i])
          IN (/\ ValidDiagnosisItem(items[i])
              /\ ValidDiagnosisItem(items[i + 1])
              /\ ItemKey(u, items[i + 1]) = k
              /\ Matching(diagnoses, k) = {}
              /\ \A j \in 1..(i - 1) : ItemKey(u, items[j]) # k)
             => /\ results[i].action = "created"
                /\ results[i + 1].action = "skipped"
                /\ results[i + 1].id = results[i].id
                /\ Cardinality(Matching(diagnoses', k)) = 1

\* C4 (idempotent diagnosis sync): the diagnosis reconciler invoked twice
\* in a row with the same user, timestamp and disease creates one record
\* and then skips, returning that record's id.
C4_IdempotentDiagnosis == [][C4_Single /\ C4_Batch]_vars

\* Witness of C4: a batch response in which a diagnosis is created and its
\* repetition is skipped with the same id.
C4_Witness ==
  /\ lastReq.route = "batch" /\ lastResp.status = 200
  /\ \E i \in 1..(Len(lastResp.results) - 1) :
       /\ lastResp.results[i].action = "created"
       /\ lastResp.results[i + 1].action = "skipped"
       /\ lastResp.results[i + 1].id = lastResp.results[i].id

\* C5 (original statement): once two racing deliveries of one diagnosis
\* record have been answered, exactly one record with its key exists.
C5_RacingDeliveriesSafe ==
  handlers = {}
  => \A a \in answered :
       a.status = 200 => Cardinality(Matching(diagnoses, a.key)) = 1

\* An item whose reconciler throws whatever the database holds.
AlwaysThrows(item) ==
  \/ item.data.shape = "null"
  \/ /\ item.type = "user_data"
     /\ \E p \in item.data.updates :
          p[1] \in AllowedUpdates /\ ~ValidValue(p[2])

\* An item whose reconciler returns whatever the database holds.
NeverThrows(item) ==
  \/ item.type \in {"irrigation", "market"} /\ item.data.shape = "object"
  \/ ValidDiagnosisItem(item)

\* C9 (batch partial-failure isolation): a well-formed batch of n items is
\* answered 200 with one result per item in input order; an item whose
\* reconciler throws gets status 'error' with the message, the others get
\* their own result, and total = n = success + errors.
C9_BatchIsolation ==
  (/\ lastReq.route = "batch"
   /\ auth(lastReq.user)
   /\ \A i \in DOMAIN lastReq.items : ValidationErrors(lastReq.items[i]) = {})
  => /\ lastResp.status = 200
     /\ Len(lastResp.results) = Len(lastReq.items)
     /\ \A i \in DOMAIN lastReq.items :
          LET item == lastReq.items[i]
              res == lastResp.results[i]
          IN /\ res.type = item.type
             /\ res.status \in {"success", "error"}
             /\ res.status = "error" => res.error # ""
             /\ AlwaysThrows(item) => res.status = "error"
             /\ NeverThrows(item) => res.status = "success"
     /\ lastResp.total = Len(lastReq.items)
     /\ lastResp.success + lastResp.errors = Len(lastReq.items)

\* Witness of C9: a 3-item batch whose second item threw and whose first
\* and third items succeeded.
C9_Witness ==
  /\ lastReq.route = "batch" /\ lastResp.status = 200
  /\ Len(lastResp.results) = 3
  /\ lastResp.results[1].status = "success"
  /\ lastResp.results[2].status = "error"
  /\ lastResp.results[3].status = "success"

\* C10 (original statement): after a batch that passed validation the
\* user's document holds the time of that batch as lastSync, and the
\* status route returns the time of the user's last such batch.
C10_LastSyncStored ==
  /\ (lastReq.route = "batch" /\ lastResp.status = 200)
     => LastSyncOf(users, lastReq.user) = batchAt[lastReq.user]
  /\ (lastReq.route = "status" /\ lastResp.status = 200)
     => lastResp.lastSync = batchAt[lastReq.user]

(***************************************************************************)
(* Properties of the validators.                                           *)
(***************************************************************************)
\* The fields of an item that break the rules of the route's validator
\* chain.
Violations(item) ==
  {f \in {"type", "data", "timestamp"} :
     \/ f = "type" /\ item.type \notin
                        {"diagnosis", "irrigation", "market", "user_data"}
     \/ f = "data" /\ item.data.shape = "absent"
     \/ f = "timestamp" /\ item.timestamp \notin {TsA, TsA2, TsB}}

\* The request just answered came from an authenticated user and has an
\* item that breaks a rule.
RejectedRequest ==
  /\ reqCount' = reqCount + 1
  /\ lastReq'.user \in Users
  /\ \E i \in DOMAIN lastReq'.items : Violations(lastReq'.items[i]) # {}

\* C11: an authenticated request to POST /api/sync, or to POST
\* /api/sync/batch, with an item whose type is outside the four types,
\* whose data is absent or whose timestamp is not ISO-8601 is answered 400
\* with the violated fields listed; no reconciler runs (no result, no
\* results), no diagnosis or user document changes, and the batch does not
\* record a last-sync time.
C11_InvalidRejected ==
  [][RejectedRequest =>
       /\ lastResp'.status = 400
       /\ lastResp'.details =
            UNION {Violations(lastReq'.items[i]) : i \in DOMAIN lastReq'.items}
       /\ lastResp'.result = NoResult
       /\ lastResp'.results = <<>>
       /\ UNCHANGED <<diagnoses, users, nextOid, batchAt>>]_vars

\* A batch of a valid diagnosis item followed by a malformed one was
\* rejected, after an earlier request had stored a diagnosis.
C11_Witness ==
  /\ lastReq.route = "batch"
  /\ lastResp.status = 400
  /\ Len(lastReq.items) = 2
  /\ Violations(lastReq.items[1]) = {}
  /\ Violations(lastReq.items[2]) = {"type", "data", "timestamp"}
  /\ lastReq.items[1].timestamp = TsA
  /\ Cardinality(diagnoses) = 1
  /\ batchAt[lastReq.user] = NoDate

(***************************************************************************)
(* Properties of the outbreak routes.                                      *)
(***************************************************************************)
\* low < medium < high < critical
Rank(severity) ==
  CASE severity = "low" -> 1
    [] severity = "medium" -> 2
    [] severity = "high" -> 3
    [] severity = "critical" -> 4

\* The stored outbreak with the given id, before and after a step.
Stored(coll, id) == CHOOSE o \in coll : o.id = id

\* The step appended a report to the outbreak o.
GainedReport(o) ==
  /\ \E n \in outbreaks' : n.id = o.id
  /\ Len(Stored(outbreaks', o.id).reportedBy) > Len(o.reportedBy)

\* C12: a report added to an outbreak never lowers the outbreak's severity
\* rank, whatever severity the outbreak was created with.
C12_SeverityNeverDecreases ==
  [][\A o \in outbreaks :
       GainedReport(o)
       => Rank(Stored(outbreaks', o.id).severity) >= Rank(o.severity)]_vars

\* C13: every stored outbreak's confirmedCases equals the length of its
\* reportedBy list, also while report handlers interleave.
C13_CasesEqualReports ==
  \A o \in outbreaks : o.confirmedCases = Len(o.reportedBy)

\* Two names are equal ignoring case.
SameName(a, b) ==
  /\ Len(a) = Len(b)
  /\ \A i \in 1..Len(a) : ToLower(a[i]) = ToLower(b[i])

Distance(x, y) == IF x >= y THEN x - y ELSE y - x

\* The non-resolved outbreaks of the report's disease and crop within 0.09
\* degrees of it in latitude and in longitude.
Clusters(coll, r) ==
  {o \in coll :
     /\ o.status # "resolved"
     /\ SameName(o.disease, r.disease)
     /\ SameName(o.crop, r.crop)
     /\ Distance(o.latitude, r.latitude) <= 9
     /\ Distance(o.longitude, r.longitude) <= 9}

\* The step handled a report and answered 201.
ReportAccepted ==
  /\ reportCount' = reportCount + 1
  /\ lastReport'.route = "report"
  /\ lastReport'.status = 201

\* C14: reports handled one at a time. If some non-resolved outbreak has
\* the report's disease and crop and lies within 0.09 degrees of it, the
\* report is appended to one such outbreak, no outbreak is added and
\* isNewOutbreak is false; otherwise exactly one outbreak is added, its
\* reportedBy holds just this report, and isNewOutbreak is true.
C14_MergeOrCreate ==
  [][ReportAccepted =>
       LET r == lastReport'.report
           entry == ReportEntry(lastReport'.user, r)
       IN IF Clusters(outbreaks, r) # {}
          THEN /\ ~lastReport'.isNewOutbreak
               /\ {o.id : o \in outbreaks'} = {o.id : o \in outbreaks}
               /\ \E o \in Clusters(outbreaks, r) :
                    /\ Stored(outbreaks', o.id).reportedBy =
                         Append(o.reportedBy, entry)
                    /\ \A e \in outbreaks : e.id # o.id => e \in outbreaks'
          ELSE /\ lastReport'.isNewOutbreak
               /\ \E n \in outbreaks' :
                    /\ n \notin outbreaks
                    /\ outbreaks' = outbreaks \cup {n}
                    /\ n.reportedBy = <<entry>>]_vars

\* C15: after an accepted report, sendOutbreakAlerts has been invoked once
\* if the resulting outbreak has severity critical or at least 10 confirmed
\* cases and not at all otherwise, and the answer's alertsSent flag says
\* which.
C15_AlertIffDue ==
  [][ReportAccepted =>
       LET o == Stored(outbreaks', lastReport'.id)
           due == o.severity = "critical" \/ o.confirmedCases >= 10
       IN /\ lastReport'.alertsSent = due
          /\ lastReport'.invoked = (IF due THEN 1 ELSE 0)
          /\ alertCalls' = alertCalls + (IF due THEN 1 ELSE 0)]_vars

\* The tenth report reached an outbreak that is not critical: the alert
\* went out on the number of cases alone.
C15_Witness ==
  /\ lastReport.route = "report"
  /\ lastReport.status = 201
  /\ lastReport.alertsSent
  /\ lastReport.invoked = 1
  /\ \E o \in outbreaks :
       /\ o.id = lastReport.id
       /\ o.confirmedCases = 10
       /\ o.severity = "high"
       /\ o.alertsSent = 1

(***************************************************************************)
(* Properties of the user-data reconciler.                                 *)
(***************************************************************************)
\* The step handled a request with one user_data item and the reconciler
\* returned.
ProfileSynced ==
  /\ reqCount' = reqCount + 1
  /\ lastResp'.status = 200
  /\ Len(lastReq'.items) = 1
  /\ lastReq'.items[1].type = "user_data"
  /\ lastReq'.route = "batch" => lastResp'.results[1].status = "success"

\* The reconciler's result in the answer of either route.
ProfileResult ==
  IF lastReq'.route = "batch" THEN lastResp'.results[1] ELSE lastResp'.result

\* The fields of the payload that are among preferences, farmDetails and
\* location.
Copied(data) ==
  {p \in data.updates : p[1] \in {"preferences", "farmDetails", "location"}}

\* A document's value at a path, as a set: empty when the path is not set.
ValueAt(doc, f) == IF f \in DOMAIN doc THEN {doc[f]} ELSE {}

\* C16: when the user-data reconciler returns, the caller's stored profile
\* differs from before only in the fields among preferences, farmDetails
\* and location that the payload carries (and in updatedAt, which every
\* save stamps), these hold the payload's values, and no other user's
\* profile changes. With none of the three in the payload it returns
\* no_changes and writes nothing; otherwise it returns updated with exactly
\* the fields it copied.
C16_AllowListOnly ==
  [][ProfileSynced =>
       LET u == lastReq'.user
           copied == Copied(lastReq'.items[1].data)
           names == {p[1] : p \in copied}
       IN /\ \A v \in Users \ {u} : users'[v] = users[v]
          /\ \A f \in (DOMAIN users[u] \cup DOMAIN users'[u])
                        \ (names \cup {"updatedAt"}) :
               ValueAt(users'[u], f) = ValueAt(users[u], f)
          /\ \A p \in copied : ValueAt(users'[u], p[1]) = {p[2]}
          /\ IF copied = {}
             THEN /\ ProfileResult.action = "no_changes"
                  /\ lastReq'.route = "single" => users' = users
             ELSE /\ ProfileResult.action = "updated"
                  /\ ProfileResult.fields = names]_vars

\* A payload with farmDetails, location and email was synced: the first
\* two were copied, the email is the old one.
C16_Witness ==
  /\ lastReq.route = "single"
  /\ lastResp.status = 200
  /\ lastResp.result.action = "updated"
  /\ lastResp.result.fields = {"farmDetails", "location"}
  /\ <<"email", "x@y">> \in lastReq.items[1].data.updates
  /\ users[lastReq.user]["email"] = "farmer"
  /\ users[lastReq.user]["farmDetails"] = "loamy"

(***************************************************************************)
(* Properties of the irrigation and market reconcilers.                    *)
(***************************************************************************)
\* An irrigation or market item whose data is an object.
AnalyticsItem(item) ==
  /\ item.type \in {"irrigation", "market"}
  /\ item.data.shape = "object"
  /\ item.timestamp \in {TsA, TsA2, TsB}

\* A user document without the time of its last write.
WithoutUpdatedAt(doc) == [f \in DOMAIN doc \ {"updatedAt"} |-> doc[f]]

\* The step handled a request from an authenticated user.
AuthenticatedRequest == reqCount' = reqCount + 1 /\ lastReq'.user \in Users

\* C17: syncing an irrigation or market record returns action 'logged'
\* and changes no diagnosis record, no user profile and no outbreak, on
\* the single route and as an item of a batch; the same request again gets
\* the same answer and leaves the same state.
C17_AnalyticsOnlyLogged ==
  [][AuthenticatedRequest =>
       /\ (lastReq'.route = "single" /\ AnalyticsItem(lastReq'.items[1]))
          => /\ lastResp'.status = 200
             /\ lastResp'.result.action = "logged"
             /\ UNCHANGED <<diagnoses, users, nextOid, outbreaks>>
             /\ (lastReq' = lastReq => lastResp' = lastResp)
       /\ (lastReq'.route = "batch" /\ lastResp'.status = 200)
          => /\ \A i \in DOMAIN lastReq'.items :
                  AnalyticsItem(lastReq'.items[i])
                  => /\ lastResp'.results[i].status = "success"
                     /\ lastResp'.results[i].action = "logged"
             /\ (\A i \in DOMAIN lastReq'.items :
                   AnalyticsItem(lastReq'.items[i]))
                => /\ UNCHANGED <<diagnoses, nextOid, outbreaks>>
                   /\ \A u \in Users : WithoutUpdatedAt(users'[u]) = WithoutUpdatedAt(users[u])
      ]_vars

\* An irrigation record was synced a second time in a row, with a
\* diagnosis record in the collection.
C17_Witness ==
  /\ reqCount = 3
  /\ lastReq.route = "single"
  /\ lastReq.items[1].type = "irrigation"
  /\ lastResp.status = 200
  /\ lastResp.result.action = "logged"
  /\ Cardinality(diagnoses) = 1

(***************************************************************************)
(* Properties of a delivery attempt.                                       *)
(***************************************************************************)
\* C18: a delivery attempt that is answered with a status from 200 to 299
\* leaves its record stored with synced = true and out of the pendingSync
\* store, whatever outcome the body reports (created, skipped,
\* no_changes); an attempt answered 4xx/5xx, or whose fetch fails, writes
\* nothing: the record's synced flag and the pendingSync store stay as
\* they were.
C18_SyncedIffDelivered ==
  [][lastDelivery' # lastDelivery =>
       LET id == lastDelivery'.id
           answer == lastDelivery'.answer
       IN IF answer.status \in {200, 201, 204}
          THEN /\ \A r \in LocalCopies(offlineData', id) : r.synced
               /\ LocalCopies(offlineData', id) # {}
               /\ id \notin Ids(pendingStore')
          ELSE /\ offlineData' = offlineData
               /\ pendingStore' = pendingStore]_vars

\* A queued record was delivered by a drain, answered 200 'skipped', and
\* is now synced and out of the queue.
C18_Witness ==
  /\ lastDelivery.answer = [status |-> 200, action |-> "skipped"]
  /\ lastDelivery.id \in enqueuedOffline
  /\ \E r \in offlineData : r.id = lastDelivery.id /\ r.synced
  /\ lastDelivery.id \notin Ids(pendingStore)

(***************************************************************************)
(* Properties of the stored records.                                       *)
(***************************************************************************)
\* C19: every record saveOfflineData has stored has one of the types
\* diagnosis, irrigation, market, user_data, whichever page made the call.
C19_TypesInClosedSet ==
  \A r \in offlineData \cup pendingStore :
    r.type \in {"diagnosis", "irrigation", "market", "user_data"}

\* No delivery attempt is under way: no save is awaiting its immediate
\* delivery, no drain is running and the service worker is idle.
NoDeliveryInFlight == saves = {} /\ drains = {} /\ bgQueue = <<>>

\* C20: whenever no delivery is in flight, the pendingSync store holds
\* exactly the stored records with synced = false.
C20_QueueIsUnsyncedRecords ==
  NoDeliveryInFlight
  => Ids(pendingStore) = {r.id : r \in {q \in offlineData : ~q.synced}}

(***************************************************************************)
(* Properties of the clear route.                                          *)
(***************************************************************************)
\* The last request was a clear by an authenticated caller.
Cleared == lastReq.route = "clear" /\ lastResp.status = 200

\* The age limit the olderThan parameter stands for, in days.
LimitDays(olderThan) ==
  IF olderThan = "7d" THEN 7 ELSE IF olderThan = "90d" THEN 90 ELSE 30

\* C21: a clear request deletes exactly the caller's records that have
\* isOffline = true and a createdAt earlier than now minus 7, 30 or 90
\* days (30 when olderThan is absent or not one of the three); every other
\* record stays, and deletedCount is the number of records removed.
C21_ClearDeletesExactly ==
  [][(reqCount' # reqCount /\ lastReq'.route = "clear"
        /\ lastResp'.status = 200) =>
       LET cutoff == serverNow - LimitDays(lastReq'.query)
           due == {d \in diagnoses : /\ d.user = lastReq'.user
                                     /\ d.isOffline
                                     /\ d.createdAt < cutoff}
       IN /\ diagnoses' = diagnoses \ due
          /\ lastResp'.deletedCount = Cardinality(due)
          /\ lastResp'.cutoffDate = <<cutoff>>]_vars

\* A clear has removed a record of the caller and left in place a newer
\* offline record of the caller and an old offline record of another user.
C21_Witness ==
  /\ Cleared
  /\ lastResp.deletedCount = 1
  /\ \E d \in diagnoses :
       d.user = lastReq.user /\ d.isOffline
       /\ d.createdAt = lastResp.cutoffDate[1]
  /\ \E d \in diagnoses :
       d.user # lastReq.user /\ d.isOffline
       /\ d.createdAt < lastResp.cutoffDate[1]

(***************************************************************************)
(* Properties of the page's requests as the endpoint sees them.            *)
(***************************************************************************)
\* The record of the delivery attempt that ended last.
Delivered == LocalCopies(offlineData, lastDelivery.id)

\* C22: a delivery attempt for a record of an allowed type passes the
\* endpoint's validation: a diagnosis record is answered 2xx (created, or
\* skipped when it is on the server already), never 400.
C22_DeliveryPassesValidation ==
  (lastDelivery.n > 0 /\ \A r \in Delivered : r.type \in SyncTypes)
    => lastDelivery.answer.status \in 200..299

(***************************************************************************)
(* Further properties of the outbreak routes.                              *)
(***************************************************************************)
\* C23: a report is appended to an existing outbreak only if the
\* outbreak's disease and crop equal the report's ignoring case; a name
\* that is only part of the outbreak's name does not make them match.
C23_MergeOnlySameName ==
  [][(ReportAccepted /\ ~lastReport'.isNewOutbreak) =>
       LET r == lastReport'.report
           o == Stored(outbreaks, lastReport'.id)
       IN SameName(o.disease, r.disease) /\ SameName(o.crop, r.crop)]_vars

(***************************************************************************)
(* Further properties of the client.                                       *)
(***************************************************************************)
\* A sequence of records is in ascending order of creation time.
Ascending(items) ==
  \A i, j \in DOMAIN items : i < j => items[i].timestamp <= items[j].timestamp

\* C24: a drain issues its delivery attempts oldest record first, whether
\* the pending list was built up by saves or reloaded from the store.
C24_DrainOldestFirst == \A d \in drains : Ascending(d.items)

\* C25: an online save starts its delivery and returns to its caller once
\* the record is persisted: no saveOfflineData call is left waiting for
\* the response of a delivery.
C25_SaveDoesNotWait ==
  \A r \in offlineData : r.id \notin AwaitingDelivery

(***************************************************************************)
(* Properties of report handlers and status updates that interleave.       *)
(***************************************************************************)
\* The handlers that complete in the step.
Completing == {h \in obHandlers : h.pc = "save" /\ h \notin obHandlers'}

\* Two outbreaks that are not resolved have the same disease and crop
\* (ignoring case) and lie within 0.09 degrees of each other.
Twins(coll) ==
  {pair \in coll \X coll :
     /\ pair[1].id < pair[2].id
     /\ pair[1].status # "resolved" /\ pair[2].status # "resolved"
     /\ SameName(pair[1].disease, pair[2].disease)
     /\ SameName(pair[1].crop, pair[2].crop)
     /\ Distance(pair[1].latitude, pair[2].latitude) <= BoxHundredths
     /\ Distance(pair[1].longitude, pair[2].longitude) <= BoxHundredths}

\* C26: find and save are separate steps. A handler whose find met no
\* outbreak creates one when its save resolves, whatever other handlers
\* have stored since: two concurrent reports of one disease and crop in a
\* new area leave two non-resolved outbreaks for it.
C26_FoundNothingCreates ==
  [][\A h \in Completing : h.isNewOutbreak =>
       /\ nextOutbreakId' = nextOutbreakId + 1
       /\ outbreaks' = outbreaks \cup
            {o \in outbreaks' : o.id = nextOutbreakId}
       /\ \E o \in outbreaks' :
            /\ o.id = nextOutbreakId
            /\ o.disease = h.report.disease /\ o.crop = h.report.crop
            /\ o.latitude = h.report.latitude
            /\ o.longitude = h.report.longitude
            /\ o.status = "active"
            /\ Len(o.reportedBy) = 1
       /\ lastReport'.isNewOutbreak]_vars

\* Without any status update, two reports have left two non-resolved
\* outbreaks of one disease and crop in one place.
C26_Witness ==
  /\ statusCount = 0
  /\ obHandlers = {}
  /\ Twins(outbreaks) # {}

(***************************************************************************)
(* Properties of the in-memory pending list.                               *)
(***************************************************************************)
\* The database is open and no save, drain or background sync is running.
Idle == db /\ saves = {} /\ drains = {} /\ bgQueue = <<>>

\* C27: whenever no operation is in progress, the in-memory pending list
\* holds the ids of the pendingSync store; a record queued while a drain
\* is in flight is still in the list after the drain has finished.
C27_ListMatchesStore ==
  Idle => Ids(Range(pendingSync)) = Ids(pendingStore)

(***************************************************************************)
(* Properties of outbreaks that are resolved and opened again.             *)
(***************************************************************************)
\* C28: with reports and status updates handled one at a time, no two
\* non-resolved outbreaks of one disease and crop (ignoring case) lie
\* within 0.09 degrees of each other in latitude and longitude, also after
\* a status update has moved a resolved outbreak back to active or
\* contained.
C28_OneClusterPerCell == Twins(outbreaks) = {}

\* C29: a resolved outbreak never gains a report: whenever a report is
\* appended, the outbreak it lands on is not resolved at that moment, also
\* when a status update comes between the handler's lookup and its append.
C29_ResolvedGainsNothing ==
  [][\A o \in outbreaks : GainedReport(o) => o.status # "resolved"]_vars

(***************************************************************************)
(* Properties of the client while it is offline.                           *)
(***************************************************************************)
\* The step started an immediate delivery, started a drain's deliveries,
\* or had the service worker send the record at the head of its list.
DeliveryStarted ==
  \/ saves' \ saves # {}
  \/ \E d \in drains' : \A e \in drains : e.n # d.n
  \/ bgQueue # <<>> /\ bgQueue' = Tail(bgQueue)

\* C30: while the effective online state is false (link down or forced
\* offline) no delivery attempt is started: a save only queues its record,
\* a drain returns without sending and without changing a record, and the
\* service worker's background sync sends nothing.
C30_OfflineSendsNothing ==
  [][~isOnline =>
       /\ ~DeliveryStarted
       /\ drainCalls' # drainCalls => UNCHANGED <<storeVars, pendingSync>>
       /\ nextId' # nextId => Ids(pendingStore') = Ids(pendingStore) \cup {nextId}
    ]_vars

====
